---- MODULE Spec2Model ----
(***************************************************************************)
(* Model of prompt_control/node_clip.py: the directive extractors          *)
(* (get_sdxl, get_area, get_mask), the weighted multi-prompt encoder       *)
(* (do_encode), the control-point interpolator (linear_interpolate_cond,   *)
(* get_control_points, linear_interpolator) and the schedule orchestrator  *)
(* (control_to_clip_common) with its cond cache and LoRA-swapping encode   *)
(* closure.                                                                *)
(*                                                                         *)
(* Conventions.                                                            *)
(*  - Step percentages are integers counting thousandths (1000 = 1.0), so  *)
(*    that round(x, 2) is a real rounding to a multiple of 10.             *)
(*  - Prompt weights and LoRA clip weights are integers counting tenths.   *)
(*  - A text is a sequence of tokens [fn, args]; its Python string is the  *)
(*    concatenation of the tokens.  A directive NAME(a b, c d) is the      *)
(*    token [fn |-> "NAME", args |-> <<<<a, b>>, <<c, d>>>>].              *)
(*  - An optional value is a sequence: <<>> is None / key absent, <<v>>    *)
(*    is the value v.                                                      *)
(*  - A tensor is symbolic: a function from base encodings <<text, noise>> *)
(*    to non-zero rational coefficients <<num, den>>.                      *)
(***************************************************************************)
EXTENDS Integers, Sequences, FiniteSets, TLC

VARIABLES
    pc,         \* "idle", "loop" (inside control_to_clip_common), "returned", "raised"
    runs,       \* number of control_to_clip_common calls started
    schedules,  \* the schedule of the current call: [entries, interpolations]
    frame,      \* locals of the current call: k (index of the entry the loop
                \* is about to visit), start_pct, conds, orig_clip, loaded_loras
    closure,    \* state of the encode closure: cond_cache, clip, current_loras,
                \* the heap of encoder handles, and two history fields:
                \* calls (do_encode calls of this run) and encoded (number
                \* of do_encode calls made for this cond_cache, per config)
    caller,     \* what the caller keeps between calls: its cond_cache (with
                \* the history field encoded) and whether the encoder of its
                \* clip returns a pooled output
    args,       \* input of the pure function under check
    result      \* its output (<<>> before the call)

vars == <<pc, runs, schedules, frame, closure, caller, args, result>>

----------------------------------------------------------------------------
(* Arithmetic *)

Abs(x) == IF x < 0 THEN -x ELSE x

Min(a, b) == IF a < b THEN a ELSE b

Max(a, b) == IF a > b THEN a ELSE b

RECURSIVE Gcd(_, _)
Gcd(a, b) == IF b = 0 THEN a ELSE Gcd(b, a % b)

\* Python round(n / d, 0) for d > 0: nearest integer, ties to even.
RoundDiv(n, d) ==
    LET q == n \div d
        r == n % d
    IN  IF 2 * r < d THEN q
        ELSE IF 2 * r > d THEN q + 1
        ELSE IF q % 2 = 0 THEN q ELSE q + 1

\* Python round(x, 2) on a percentage counted in thousandths.
Round2(x) == 10 * RoundDiv(x, 10)

\* int(f) on a float counted in thousandths: truncation toward zero.
IntOf(x) == IF x >= 0 THEN x \div 1000 ELSE -((-x) \div 1000)

----------------------------------------------------------------------------
(* Optional values *)

None == <<>>

Some(v) == <<v>>

IsNone(o) == Len(o) = 0

----------------------------------------------------------------------------
(* utils.get_function / utils.parse_floats (directive extraction) *)

Word(w) == [fn |-> "word", args |-> <<<<w>>>>]

\* Positional defaults: a missing trailing argument takes the default.
FillDefaults(given, defaults) ==
    [i \in 1..Len(defaults) |-> IF i <= Len(given) THEN given[i] ELSE defaults[i]]

\* get_function(text, func, defaults): the text without the directive and
\* the argument lists of every occurrence, in source order.
get_function(text, func, defaults) ==
    LET occ == SelectSeq(text, LAMBDA t : t.fn = func)
    IN  [text  |-> SelectSeq(text, LAMBDA t : t.fn # func),
         found |-> [i \in 1..Len(occ) |-> FillDefaults(occ[i].args, defaults)]]

\* parse_floats(s, defaults, split_re): the floats of s, or the defaults when
\* s does not parse into as many floats as there are defaults.
parse_floats(s, defaults) == IF Len(s) = Len(defaults) THEN s ELSE defaults

\* safe_float(s, default)
safe_float(s, default) == IF Len(s) = 1 THEN s[1] ELSE default

----------------------------------------------------------------------------
(* get_sdxl *)

SdxlDefaults == << <<>>, <<1024000, 1024000>>, <<1024000, 1024000>>, <<0, 0>> >>

get_sdxl(text) ==
    LET f  == get_function(text, "SDXL", SdxlDefaults)
        a  == f.found[1]
        wh == parse_floats(a[1], <<1024000, 1024000>>)
        t  == parse_floats(a[2], <<1024000, 1024000>>)
        c  == parse_floats(a[3], <<0, 0>>)
    IN  IF Len(f.found) = 0 THEN [text |-> f.text, opts |-> None]
        ELSE [text |-> f.text,
              opts |-> Some([width |-> IntOf(wh[1]), height |-> IntOf(wh[2]),
                             target_width |-> IntOf(t[1]), target_height |-> IntOf(t[1]),
                             crop_w |-> IntOf(c[1]), crop_h |-> IntOf(c[2])])]

----------------------------------------------------------------------------
(* Symbolic tensors *)

Norm(q) ==
    LET g == Gcd(Abs(q[1]), q[2])
    IN  IF q[1] = 0 THEN <<0, 1>> ELSE <<q[1] \div g, q[2] \div g>>

RAdd(p, q) == Norm(<<p[1] * q[2] + q[1] * p[2], p[2] * q[2]>>)

RMul(p, q) == Norm(<<p[1] * q[1], p[2] * q[2]>>)

Coef(t, b) == IF b \in DOMAIN t THEN t[b] ELSE <<0, 1>>

\* Keep only the non-zero coefficients, so that equal tensors are equal values.
Prune(t) ==
    LET keep == {b \in DOMAIN t : t[b][1] # 0}
    IN  [b \in keep |-> t[b]]

Zero == [b \in {} |-> <<0, 1>>]

TAdd(s, t) == Prune([b \in (DOMAIN s) \cup (DOMAIN t) |-> RAdd(Coef(s, b), Coef(t, b))])

TScale(t, q) == Prune([b \in DOMAIN t |-> RMul(t[b], q)])

RECURSIVE TSum(_)
TSum(ts) == IF Len(ts) = 0 THEN Zero ELSE TAdd(ts[1], TSum(Tail(ts)))

\* from + (to - from) * factor, factor counted in hundredths
Blend(from, to, factor) ==
    TAdd(from, TScale(TAdd(to, TScale(from, <<-1, 1>>)), Norm(<<factor, 100>>)))

\* equalize(a, b) pads the shorter tensor by repetition; the symbolic value
\* of each tensor is unchanged.
equalize(a, b) == <<a, b>>

----------------------------------------------------------------------------
(* get_area, get_mask_size, get_mask, get_noise *)

is_pct(f) == f >= 0 /\ f <= 1000

is_pixel(f) == f = 0 \/ f > 1000

AllPct(vs) == \A i \in 1..Len(vs) : is_pct(vs[i])

AllPixel(vs) == \A i \in 1..Len(vs) : is_pixel(vs[i])

AreaDefaults == << <<0, 1000>>, <<0, 1000>>, <<10>> >>

\* get_area without the check of the units: mixed values taken as pixels.
get_area_Unchecked(text) ==
    LET f  == get_function(text, "AREA", AreaDefaults)
        a  == f.found[1]
        xw == parse_floats(a[1], <<0, 1000>>)
        yh == parse_floats(a[2], <<0, 1000>>)
    IN  IF Len(f.found) = 0 THEN [raised |-> FALSE, text |-> f.text, area |-> None]
        ELSE [raised |-> FALSE, text |-> f.text,
              area |-> Some([area |-> <<"latent", IntOf(yh[2]) \div 8, IntOf(xw[2]) \div 8,
                                        IntOf(yh[1]) \div 8, IntOf(xw[1]) \div 8>>,
                             weight |-> safe_float(a[3], 10)])]

\* get_area(text): only the first AREA of the text is looked at.  The pixel
\* form is int(v) // 8.
get_area(text) ==
    LET f  == get_function(text, "AREA", AreaDefaults)
        a  == f.found[1]
        xw == parse_floats(a[1], <<0, 1000>>)
        yh == parse_floats(a[2], <<0, 1000>>)
        x  == xw[1]
        w  == xw[2]
        y  == yh[1]
        h  == yh[2]
        weight == safe_float(a[3], 10)
    IN  IF Len(f.found) = 0 THEN [raised |-> FALSE, text |-> f.text, area |-> None]
        ELSE IF AllPct(<<h, w, y, x>>)
        THEN [raised |-> FALSE, text |-> f.text,
              area |-> Some([area |-> <<"percentage", h, w, y, x>>, weight |-> weight])]
        ELSE IF AllPixel(<<h, w, y, x>>)
        THEN [raised |-> FALSE, text |-> f.text,
              area |-> Some([area |-> <<"latent", IntOf(h) \div 8, IntOf(w) \div 8,
                                        IntOf(y) \div 8, IntOf(x) \div 8>>,
                             weight |-> weight])]
        ELSE [raised |-> TRUE, text |-> f.text, area |-> None]

MaskSizeDefaults == << <<512>>, <<512>> >>

get_mask_size(text) ==
    LET f == get_function(text, "MASK_SIZE", MaskSizeDefaults)
    IN  IF Len(f.found) = 0 THEN [text |-> f.text, size |-> <<512, 512>>]
        ELSE [text |-> f.text, size |-> <<f.found[1][1][1], f.found[1][2][1]>>]

\* get_mask(text, size): only the first MASK of the text is looked at.  The
\* mask tensor is the canvas size with the rectangle that is set to 1.
get_mask(text, size) ==
    LET f  == get_function(text, "MASK", AreaDefaults)
        a  == f.found[1]
        xs == parse_floats(a[1], <<0, 1000>>)
        ys == parse_floats(a[2], <<0, 1000>>)
        weight == safe_float(a[3], 10)
        vs == <<xs[1], xs[2], ys[1], ys[2]>>
        w  == size[1]
        h  == size[2]
    IN  IF Len(f.found) = 0
        THEN [raised |-> FALSE, text |-> f.text, mask |-> None, weight |-> None]
        ELSE IF AllPct(vs)
        THEN [raised |-> FALSE, text |-> f.text,
              mask |-> Some(<<w, h, (w * xs[1]) \div 1000, (w * xs[2]) \div 1000,
                                    (h * ys[1]) \div 1000, (h * ys[2]) \div 1000>>),
              weight |-> Some(weight)]
        ELSE IF AllPixel(vs)
        THEN [raised |-> FALSE, text |-> f.text,
              mask |-> Some(<<w, h, IntOf(xs[1]), IntOf(xs[2]), IntOf(ys[1]), IntOf(ys[2])>>),
              weight |-> Some(weight)]
        ELSE [raised |-> TRUE, text |-> f.text, mask |-> None, weight |-> None]

NoiseDefaults == << <<0>>, <<>> >>

RECURSIVE SumNoise(_)
SumNoise(ns) == IF Len(ns) = 0 THEN 0 ELSE safe_float(ns[1][1], 0) + SumNoise(Tail(ns))

\* get_noise(text): the noise weights of all NOISE directives summed and
\* clamped to [0, 1] (thousandths); the generator seed is not modelled.
get_noise(text) ==
    LET f == get_function(text, "NOISE", NoiseDefaults)
    IN  IF Len(f.found) = 0 THEN [text |-> f.text, w |-> None]
        ELSE [text |-> f.text, w |-> Some(Max(Min(SumNoise(f.found), 1000), 0))]

----------------------------------------------------------------------------
(* encode_prompt / apply_noise, symbolically *)

\* A clip handle is [patches |-> the LoRAs applied to it, in order,
\*                   pooled  |-> whether its encoder returns a pooled output].
\* encode_prompt(clip, text): the encoding of exactly this text by exactly
\* this handle; apply_noise mixes noise in when the weight is set and non-zero.
NoiseOf(noise_w) == IF IsNone(noise_w) THEN 0 ELSE noise_w[1]

Enc(clip, text, noise_w, out) ==
    LET b == [text |-> text, noise |-> NoiseOf(noise_w), patches |-> clip.patches, out |-> out]
    IN  [x \in {b} |-> <<1, 1>>]

encode_prompt(clip, text, noise_w) ==
    [cond   |-> Enc(clip, text, noise_w, "cond"),
     pooled |-> IF clip.pooled THEN Some(Enc(clip, text, noise_w, "pooled")) ELSE None]

----------------------------------------------------------------------------
(* do_encode *)

\* The metadata mapping of a conditioning segment; an absent key is None.
NoSettings ==
    [prompt |-> None, strength |-> None, area |-> None, mask |-> None,
     mask_strength |-> None, pooled_output |-> None, sdxl |-> None,
     start_percent |-> None, end_percent |-> None]

HasFn(text, func) == \E i \in 1..Len(text) : text[i].fn = func

\* re.split(r"\bAND\b", text)
RECURSIVE SplitAnd(_)
SplitAnd(text) ==
    LET at == {i \in 1..Len(text) : text[i].fn = "AND"}
        k  == CHOOSE i \in at : \A j \in at : i <= j
    IN  IF at = {} THEN <<text>>
        ELSE <<SubSeq(text, 1, k - 1)>> \o SplitAnd(SubSeq(text, k + 1, Len(text)))

\* weight(t): the trailing ":<float>[!tag]" suffix, matched at the end of
\* the sub-prompt only.  args[2] = <<1>> is the tag "!noscale".
weight(t) ==
    LET last == t[Len(t)]
    IN  IF Len(t) > 0 /\ last.fn = ":"
        THEN [w     |-> last.args[1][1],
              scale |-> IF Len(last.args) > 1 /\ last.args[2] = <<1>> THEN Some(10) ELSE None,
              t     |-> SubSeq(t, 1, Len(t) - 1)]
        ELSE [w |-> 10, scale |-> None, t |-> t]

RECURSIVE SumScale(_)
SumScale(prompts) ==
    IF Len(prompts) = 0 THEN 0
    ELSE (IF HasFn(prompts[1], "AREA") \/ HasFn(prompts[1], "MASK") THEN 0
          ELSE Abs(weight(prompts[1]).w))
         + SumScale(Tail(prompts))

\* One pass of the loop over the sub-prompts (lines 446-478), statement by
\* statement: get_mask, weight, get_noise, the skip of a zero weight,
\* get_area, get_sdxl(p), encode_prompt, the settings, and the append to
\* conds or to res.
DoEncodeStep(clip, prompt, st, p, sdxl_opts, scale, alt_method, mask_size) ==
    LET Settings(m, wt, ar, sx, e) ==
            [NoSettings EXCEPT
                !.prompt = Some(sx.text),
                !.strength = IF ~IsNone(ar.area) THEN Some(ar.area[1].weight)
                             ELSE IF alt_method THEN Some(wt.w) ELSE None,
                !.sdxl = IF ~IsNone(sx.opts) THEN sx.opts ELSE sdxl_opts,
                !.area = IF IsNone(ar.area) THEN None ELSE Some(ar.area[1].area),
                !.mask = m.mask,
                !.mask_strength = m.weight,
                !.pooled_output = e.pooled]
        Emit(m, wt, nz, ar, sx, e) ==
            IF ~IsNone(m.mask) \/ ~IsNone(ar.area) \/ alt_method \/ ~IsNone(sx.opts)
            THEN [st EXCEPT !.text = nz.text,
                            !.conds = Append(@, [cond |-> e.cond, s |-> Settings(m, wt, ar, sx, e)])]
            ELSE [st EXCEPT !.text = nz.text,
                            !.res = Append(@, [cond |-> e.cond, pooled |-> e.pooled,
                                               w |-> Norm(<<wt.w, IF IsNone(wt.scale) THEN scale
                                                                  ELSE wt.scale[1]>>)])]
        Encoded(m, wt, nz, ar, sx) == Emit(m, wt, nz, ar, sx, encode_prompt(clip, sx.text, nz.w))
        Area(m, wt, nz, ar) ==
            IF ar.raised THEN [st EXCEPT !.raised = TRUE, !.text = nz.text]
            ELSE Encoded(m, wt, nz, ar, get_sdxl(p))
        Weighted(m, wt, nz) ==
            IF wt.w = 0 THEN [st EXCEPT !.text = nz.text]
            ELSE Area(m, wt, nz, get_area(wt.t))
        Masked(m) ==
            IF m.raised THEN [st EXCEPT !.raised = TRUE]
            ELSE Weighted(m, weight(m.text), get_noise(st.text))
    IN  Masked(get_mask(prompt, mask_size))

RECURSIVE DoEncodeLoop(_, _, _, _, _, _, _, _)
DoEncodeLoop(clip, prompts, st, p, sdxl_opts, scale, alt_method, mask_size) ==
    IF Len(prompts) = 0 \/ st.raised THEN st
    ELSE DoEncodeLoop(clip, Tail(prompts),
                      DoEncodeStep(clip, prompts[1], st, p, sdxl_opts, scale,
                                   alt_method, mask_size),
                      p, sdxl_opts, scale, alt_method, mask_size)

\* do_encode(clip, text): [raised, conds].  A raise returns no list.
do_encode(clip, text0) ==
    LET Summed(res, pooleds, sdxl_opts) ==
            [cond |-> TSum([i \in 1..Len(res) |-> TScale(res[i].cond, res[i].w)]),
             s    |-> [NoSettings EXCEPT
                          !.sdxl = sdxl_opts,
                          !.pooled_output =
                              IF Len(pooleds) > 0
                              THEN Some(TSum([i \in 1..Len(pooleds) |-> pooleds[i].pooled[1]]))
                              ELSE None]]
        Result(st, sdxl_opts) ==
            IF st.raised THEN [raised |-> TRUE, conds |-> <<>>]
            ELSE IF Len(st.res) > 0
            THEN [raised |-> FALSE,
                  conds  |-> Append(st.conds,
                                    Summed(st.res,
                                           SelectSeq(st.res, LAMBDA r : ~IsNone(r.pooled)),
                                           sdxl_opts))]
            ELSE [raised |-> FALSE, conds |-> st.conds]
        Loop(text, prompts, p, sdxl_opts, alt_method, mask_size) ==
            Result(DoEncodeLoop(clip, prompts,
                                [raised |-> FALSE, text |-> text, conds |-> <<>>, res |-> <<>>],
                                p, sdxl_opts, SumScale(prompts), alt_method, mask_size),
                   sdxl_opts)
        First(text, split, first, alt_method, mask_size) ==
            Loop(text, <<first.text>> \o Tail(split), first.text, first.opts, alt_method,
                 mask_size)
        Split(text, split, alt_method, mask_size) ==
            First(text, split, get_sdxl(split[1]), alt_method, mask_size)
        Text(text, alt_method, mask_size) == Split(text, SplitAnd(text), alt_method, mask_size)
        Sized(ms) ==
            Text(SelectSeq(ms.text, LAMBDA t : t.fn # "COMFYAND"), HasFn(ms.text, "COMFYAND"),
                 ms.size)
    IN  Sized(get_mask_size(text0))

----------------------------------------------------------------------------
(* linear_interpolate_cond *)

\* The body of "for s in range(start_on, num_steps)" (lines 64-88) for one s.
\* new_pooled is a local of the whole call: <<>> while it is unbound, and
\* reading it unbound (line 73) raises UnboundLocalError.
InterpolateStep(st, s, seg_from, seg_to, total_steps, step) ==
    LET from_pooled == seg_from.s.pooled_output
        to_pooled   == seg_to.s.pooled_output
        NewPooled(factor) ==
            IF ~IsNone(from_pooled) /\ ~IsNone(to_pooled)
            THEN Some(Blend(from_pooled[1], to_pooled[1], factor))
            ELSE IF ~IsNone(from_pooled) THEN from_pooled
            ELSE st.new_pooled
        N(factor, new_cond, new_pooled, end_percent) ==
            [cond |-> new_cond,
             s    |-> [seg_from.s EXCEPT
                          !.pooled_output = new_pooled,
                          !.start_percent = Some(Round2(st.start_pct)),
                          !.end_percent   = Some(Min(end_percent, 1000)),
                          !.prompt = Some(<<[fn |-> "linear",
                                             args |-> <<<<100 - factor>>, <<factor>>>>]>>)]]
        Emit(factor, new_pooled, next_pct) ==
            IF IsNone(new_pooled) THEN [st EXCEPT !.raised = TRUE]
            ELSE [st EXCEPT !.new_pooled = new_pooled,
                            !.start_pct  = next_pct,
                            !.res        = Append(@, N(factor,
                                                       Blend(seg_from.cond, seg_to.cond, factor),
                                                       new_pooled, next_pct))]
        Step(factor) == Emit(factor, NewPooled(factor), Round2(st.start_pct + step))
    IN  Step(RoundDiv((s + 1) * 100, total_steps + 1))

RECURSIVE InterpolateSteps(_, _, _, _, _, _, _)
InterpolateSteps(st, s, num_steps, seg_from, seg_to, total_steps, step) ==
    IF s >= num_steps \/ st.raised THEN st
    ELSE InterpolateSteps(InterpolateStep(st, s, seg_from, seg_to, total_steps, step),
                          s + 1, num_steps, seg_from, seg_to, total_steps, step)

\* The body of "for idx in range(count)" (lines 49-91) for one idx.
InterpolateIdx(acc, idx, start, end, from_step, to_step, step, start_at, end_at) ==
    LET total_steps == RoundDiv(to_step - from_step, step)
        num_steps   == RoundDiv(end_at - from_step, step)
        start_on    == RoundDiv(start_at - from_step, step)
        Closed(res, last_end) ==
            [i \in 1..Len(res) |-> IF i = Len(res)
                                   THEN [res[i] EXCEPT !.s.end_percent = Some(last_end)]
                                   ELSE res[i]]
        Extend(st) ==
            IF st.raised THEN [acc EXCEPT !.raised = TRUE]
            ELSE [acc EXCEPT !.new_pooled = st.new_pooled,
                             !.all_res = @ \o Closed(st.res, Round2(end_at))]
    IN  Extend(InterpolateSteps([start_pct |-> start_at, new_pooled |-> acc.new_pooled,
                                 res |-> <<>>, raised |-> FALSE],
                                start_on, num_steps, start[idx], end[idx], total_steps, step))

RECURSIVE InterpolateAll(_, _, _, _, _, _, _, _, _, _)
InterpolateAll(acc, idx, count, start, end, from_step, to_step, step, start_at, end_at) ==
    IF idx > count \/ acc.raised THEN acc
    ELSE InterpolateAll(InterpolateIdx(acc, idx, start, end, from_step, to_step, step,
                                       start_at, end_at),
                        idx + 1, count, start, end, from_step, to_step, step, start_at, end_at)

\* linear_interpolate_cond(start, end, from_step, to_step, step, start_at, end_at):
\* [raised, conds].  start_at and end_at are optional.
linear_interpolate_cond(start, end, from_step, to_step, step, start_at, end_at) ==
    LET count == Min(Len(start), Len(end))
        sa    == IF IsNone(start_at) THEN from_step ELSE start_at[1]
        ea    == IF IsNone(end_at) THEN to_step ELSE end_at[1]
        Result(acc) == IF acc.raised THEN [raised |-> TRUE, conds |-> <<>>]
                       ELSE [raised |-> FALSE, conds |-> acc.all_res]
    IN  Result(InterpolateAll([new_pooled |-> None, all_res |-> <<>>, raised |-> FALSE],
                              1, count, start, end, from_step, to_step, step, sa, ea))

----------------------------------------------------------------------------
(* linear_interpolator *)

\* A pass that goes on to the next pair after a pair of zero segments.
InterpolatorStep_NoStop(st, cp, o_start, o_end, step, start_pct, end_pct) ==
    LET Extend(cs) ==
            IF cs.raised THEN [st EXCEPT !.raised = TRUE, !.stopped = TRUE]
            ELSE [st EXCEPT !.conds = @ \o cs.conds, !.t_start = cp.t, !.start = cp.cond]
    IN  IF st.t_start < start_pct
        THEN [st EXCEPT !.t_start = cp.t, !.start = cp.cond]
        ELSE IF st.t_start >= end_pct THEN [st EXCEPT !.stopped = TRUE]
        ELSE Extend(linear_interpolate_cond(st.start, cp.cond, o_start, o_end, step,
                                            Some(st.t_start), Some(end_pct)))

\* One pass of "for t_end, end in control_points[1:]" (lines 111-123).
InterpolatorStep(st, cp, o_start, o_end, step, start_pct, end_pct) ==
    LET Extend(cs) ==
            IF cs.raised THEN [st EXCEPT !.raised = TRUE, !.stopped = TRUE]
            ELSE IF Len(cs.conds) > 0
            THEN [st EXCEPT !.conds = @ \o cs.conds, !.t_start = cp.t, !.start = cp.cond]
            ELSE [st EXCEPT !.stopped = TRUE]
    IN  IF st.t_start < start_pct
        THEN [st EXCEPT !.t_start = cp.t, !.start = cp.cond]
        ELSE IF st.t_start >= end_pct THEN [st EXCEPT !.stopped = TRUE]
        ELSE Extend(linear_interpolate_cond(st.start, cp.cond, o_start, o_end, step,
                                            Some(st.t_start), Some(end_pct)))

RECURSIVE InterpolatorLoop(_, _, _, _, _, _, _)
InterpolatorLoop(st, rest, o_start, o_end, step, start_pct, end_pct) ==
    IF Len(rest) = 0 \/ st.stopped THEN st
    ELSE InterpolatorLoop(InterpolatorStep(st, rest[1], o_start, o_end, step, start_pct, end_pct),
                          Tail(rest), o_start, o_end, step, start_pct, end_pct)

\* linear_interpolator(control_points, step, start_pct, end_pct): [raised, conds].
\* A control point is [t |-> percentage, cond |-> list of segments].
linear_interpolator(control_points, step, start_pct, end_pct) ==
    LET o_start == control_points[1].t
        o_end   == control_points[Len(control_points)].t
        Result(st) == IF st.raised THEN [raised |-> TRUE, conds |-> <<>>]
                      ELSE [raised |-> FALSE, conds |-> st.conds]
    IN  Result(InterpolatorLoop([t_start |-> o_start, start |-> control_points[1].cond,
                                 conds |-> <<>>, stopped |-> FALSE, raised |-> FALSE],
                                Tail(control_points), o_start, o_end, step, start_pct, end_pct))

----------------------------------------------------------------------------
(* control_to_clip_common: the closures load_clip_lora, c_str and encode *)

\* A segment config c is [prompt |-> text, loras |-> [name -> weight_clip]],
\* LoRA names being numbers that print as the word of that number.
RECURSIVE SortedSeq(_)
SortedSeq(S) ==
    IF S = {} THEN <<>>
    ELSE LET m == CHOOSE x \in S : \A y \in S : x <= y
         IN  <<m>> \o SortedSeq(S \ {m})

\* str(weight_clip)
StrFloat(w) == [fn |-> "float", args |-> <<<<w>>>>]

RECURSIVE JoinLoras(_, _)
JoinLoras(names, loras) ==
    IF Len(names) = 0 THEN <<>>
    ELSE <<Word(names[1]), StrFloat(loras[names[1]])>> \o JoinLoras(Tail(names), loras)

\* c_str(c): the prompt followed by each LoRA name and clip weight, in
\* name order, joined without separators.
c_str(c) == c.prompt \o JoinLoras(SortedSeq(DOMAIN c.loras), c.loras)

\* load_clip_lora(clip, loraspec): the handle after patching it in place
\* (utils.load_lora with clone=False) with every loaded LoRA of non-zero
\* clip weight.
RECURSIVE ApplyLoras(_, _, _, _)
ApplyLoras(clip, names, loraspec, loaded_loras) ==
    IF Len(names) = 0 THEN clip
    ELSE LET name == names[1]
             next == IF name \notin loaded_loras \/ loraspec[name] = 0 THEN clip
                     ELSE [clip EXCEPT !.patches = Append(@, <<name, loraspec[name]>>)]
         IN  ApplyLoras(next, Tail(names), loraspec, loaded_loras)

load_clip_lora(clip, loraspec, loaded_loras) ==
    ApplyLoras(clip, SortedSeq(DOMAIN loraspec), loraspec, loaded_loras)

\* The LoRAs applied to the original handle itself, without a clone.
SwapLoras_NoClone(es, loras, orig_clip, loaded_loras) ==
    [es EXCEPT !.handles[orig_clip] = load_clip_lora(@, loras, loaded_loras),
               !.clip = orig_clip,
               !.current_loras = loras]

\* Lines 540-542: clip = load_clip_lora(orig_clip.clone(), loras);
\* current_loras = loras.  The clone is a new handle of the heap es.handles.
SwapLoras(es, loras, orig_clip, loaded_loras) ==
    [es EXCEPT !.handles = Append(@, load_clip_lora(es.handles[orig_clip], loras, loaded_loras)),
               !.clip = Len(es.handles) + 1,
               !.current_loras = loras]

Put(f, k, v) == [x \in (DOMAIN f) \cup {k} |-> IF x = k THEN v ELSE f[x]]

\* The tally of do_encode invocations for a config: how many were made and
\* how many returned.
Count(f, k) == IF k \in DOMAIN f THEN f[k] ELSE [calls |-> 0, done |-> 0]

\* encode that never looks into cond_cache.
encode_NoLookup(es, c, orig_clip, loaded_loras) ==
    LET Store(es1, d) ==
            [es1 EXCEPT !.calls = Append(@, [c |-> c, handle |-> es1.clip,
                                             patches |-> es1.handles[es1.clip].patches,
                                             known |-> Len(es.handles), raised |-> d.raised]),
                        !.encoded = Put(@, c, [calls |-> Count(@, c).calls + 1,
                                                done  |-> Count(@, c).done +
                                                          (IF d.raised THEN 0 ELSE 1)]),
                        !.raised = d.raised,
                        !.cond_cache = IF d.raised THEN @ ELSE Put(@, c_str(c), d.conds)]
        Miss(es1) == Store(es1, do_encode(es1.handles[es1.clip], c.prompt))
    IN  IF es.raised THEN es
        ELSE Miss(IF c.loras # es.current_loras
                  THEN SwapLoras(es, c.loras, orig_clip, loaded_loras) ELSE es)

\* encode(c) (lines 532-544) on the closure state es: on a cache miss the
\* LoRAs are swapped when they differ, do_encode runs on the handle, and its
\* result is stored; a raise of do_encode leaves the cache as it was and ends
\* the run.  calls and encoded record the do_encode invocations.
encode(es, c, orig_clip, loaded_loras) ==
    LET Store(es1, d) ==
            [es1 EXCEPT !.calls = Append(@, [c |-> c, handle |-> es1.clip,
                                             patches |-> es1.handles[es1.clip].patches,
                                             known |-> Len(es.handles), raised |-> d.raised]),
                        !.encoded = Put(@, c, [calls |-> Count(@, c).calls + 1,
                                                done  |-> Count(@, c).done +
                                                          (IF d.raised THEN 0 ELSE 1)]),
                        !.raised = d.raised,
                        !.cond_cache = IF d.raised THEN @ ELSE Put(@, c_str(c), d.conds)]
        Miss(es1) == Store(es1, do_encode(es1.handles[es1.clip], c.prompt))
    IN  IF es.raised \/ c_str(c) \in DOMAIN es.cond_cache THEN es
        ELSE Miss(IF c.loras # es.current_loras
                  THEN SwapLoras(es, c.loras, orig_clip, loaded_loras) ELSE es)

\* The value encode(c) returns once it has not raised.
Cached(es, c) == es.cond_cache[c_str(c)]

----------------------------------------------------------------------------
(* get_control_points *)

\* schedule.at_step(s): the entry whose (previous end, end_percent] holds s.
at_step(entries, s) ==
    LET at == {i \in 1..Len(entries) : entries[i].end_pct >= s}
    IN  IF at = {} THEN entries[Len(entries)]
        ELSE entries[CHOOSE i \in at : \A j \in at : i <= j]

SeqRange(q) == {q[i] : i \in 1..Len(q)}

\* new_steps of get_control_points (lines 97-100)
NewSteps(entries, steps) ==
    SeqRange(steps) \cup
    {entries[i].end_pct : i \in {j \in 1..Len(entries) :
        entries[j].end_pct >= steps[1] /\ entries[j].end_pct <= steps[Len(steps)]}}

RECURSIVE PermSeqs(_)
PermSeqs(S) ==
    IF S = {} THEN {<<>>}
    ELSE UNION {{<<x>> \o q : q \in PermSeqs(S \ {x})} : x \in S}

RECURSIVE EncodeAll(_, _, _, _, _)
EncodeAll(es, order, entries, orig_clip, loaded_loras) ==
    IF Len(order) = 0 THEN es
    ELSE EncodeAll(encode(es, at_step(entries, order[1]).c, orig_clip, loaded_loras),
                   Tail(order), entries, orig_clip, loaded_loras)

\* get_control_points(schedule, steps, encode) when the set new_steps is
\* walked in the given order: the closure state afterwards and the control
\* points sorted by percentage.  len(steps) <= 1 fails the assertion.
get_control_points(es, order, entries, steps, orig_clip, loaded_loras) ==
    LET Points(es1, sorted) ==
            IF es1.raised THEN [es |-> es1, control_points |-> <<>>]
            ELSE [es |-> es1,
                  control_points |-> [i \in 1..Len(sorted) |->
                                        [t |-> sorted[i],
                                         cond |-> Cached(es1, at_step(entries, sorted[i]).c)]]]
    IN  IF Len(steps) <= 1 THEN [es |-> [es EXCEPT !.raised = TRUE], control_points |-> <<>>]
        ELSE Points(EncodeAll(es, order, entries, orig_clip, loaded_loras),
                    SortedSeq(SeqRange(order)))

----------------------------------------------------------------------------
(* control_to_clip_common: the loop over the schedule (lines 546-577) *)

Overlaps(i, sp, end_pct) ==
    LET first == i.points[1]
        last  == i.points[Len(i.points)]
    IN  (sp >= first /\ sp < last) \/ (end_pct > first /\ sp < last)

RECURSIVE MinStep(_)
MinStep(is) ==
    IF Len(is) = 1 THEN is[1].step ELSE Min(is[1].step, MinStep(Tail(is)))

\* Lines 556-563 for one interpolation spec.  new_steps is a Python set, so
\* the order in which its members are encoded is not fixed: one outcome per
\* order.
InterpolationOutcomes(acc, i, min_step, entries, sp, end_pct, orig, loaded) ==
    {LET interpolation_end_pct   == Min(i.points[Len(i.points)], end_pct)
         interpolation_start_pct == Max(i.points[1], sp)
         Extend(g, cs) ==
            IF cs.raised THEN [acc EXCEPT !.es = [g.es EXCEPT !.raised = TRUE]]
            ELSE [acc EXCEPT !.es = g.es,
                             !.conds = @ \o cs.conds,
                             !.new_start_pct = Max(@, interpolation_end_pct)]
         Interpolate(g) ==
            IF g.es.raised THEN [acc EXCEPT !.es = g.es]
            ELSE Extend(g, linear_interpolator(g.control_points, min_step,
                                               interpolation_start_pct, interpolation_end_pct))
     IN  IF acc.es.raised THEN acc
         ELSE Interpolate(get_control_points(acc.es, order, entries, i.points, orig, loaded))
     : order \in PermSeqs(NewSteps(entries, i.points))}

RECURSIVE InterpolationsOutcomes(_, _, _, _, _, _, _, _)
InterpolationsOutcomes(accs, is, min_step, entries, sp, end_pct, orig, loaded) ==
    IF Len(is) = 0 THEN accs
    ELSE InterpolationsOutcomes(
             UNION {InterpolationOutcomes(a, is[1], min_step, entries, sp, end_pct, orig, loaded)
                    : a \in accs},
             Tail(is), min_step, entries, sp, end_pct, orig, loaded)

\* Stamp with a start that never advances past 0.
Stamp_StartNotAdvanced(cond, sp, end_pct, c) ==
    [i \in 1..Len(cond) |->
        [cond[i] EXCEPT !.s.start_percent = Some(0),
                        !.s.end_percent   = Some(Round2(end_pct)),
                        !.s.prompt        = Some(c.prompt)]]

\* Lines 569-574: the segments of encode(c) stamped with the range.
Stamp(cond, sp, end_pct, c) ==
    [i \in 1..Len(cond) |->
        [cond[i] EXCEPT !.s.start_percent = Some(Round2(sp)),
                        !.s.end_percent   = Some(Round2(end_pct)),
                        !.s.prompt        = Some(c.prompt)]]

\* Lines 566-574 after the interpolations.
DirectEncode(acc, entry, orig, loaded) ==
    LET Extend(es1) ==
            IF es1.raised THEN [acc EXCEPT !.es = es1]
            ELSE [acc EXCEPT !.es = es1,
                             !.conds = @ \o Stamp(Cached(es1, entry.c), acc.new_start_pct,
                                                  entry.end_pct, entry.c)]
    IN  IF acc.es.raised \/ ~(acc.new_start_pct < entry.end_pct) THEN acc
        ELSE Extend(encode(acc.es, entry.c, orig, loaded))

\* One pass of "for end_pct, c in schedules": the possible (es, conds) after it.
LoopBody(es0, conds0, sp, entry, sch, orig, loaded) ==
    LET acc0 == [es |-> es0, conds |-> conds0, new_start_pct |-> sp]
        Interpolated(interpolations) ==
            IF Len(interpolations) = 0 THEN {acc0}
            ELSE InterpolationsOutcomes({acc0}, interpolations, MinStep(interpolations),
                                        sch.entries, sp, entry.end_pct, orig, loaded)
    IN  {DirectEncode(acc, entry, orig, loaded) :
            acc \in Interpolated(SelectSeq(sch.interpolations,
                                           LAMBDA i : Overlaps(i, sp, entry.end_pct)))}

----------------------------------------------------------------------------
(* Bounds and inputs *)

MaxRuns == 2        \* calls of control_to_clip_common on one caller cache

MaxEntries == 2     \* entries of a schedule

EmptyMap == <<>>

a == Word(1)

b == Word(2)

AND == [fn |-> "AND", args |-> <<>>]

W(w) == [fn |-> ":", args |-> <<<<w>>>>]

AreaPct == [fn |-> "AREA", args |-> <<<<0, 500>>, <<0, 500>>, <<10>>>>]

AreaMixed == [fn |-> "AREA", args |-> <<<<200, 800>>, <<64000, 256000>>, <<10>>>>]

AreaPx == [fn |-> "AREA", args |-> <<<<64000, 256000>>, <<0, 512000>>, <<10>>>>]

MaskPct == [fn |-> "MASK", args |-> <<<<0, 500>>, <<0, 500>>, <<10>>>>]

MaskMixed == [fn |-> "MASK", args |-> <<<<200, 800>>, <<64000, 256000>>, <<10>>>>]

\* LoRA names: "7" is loaded, "8" is not.
Loaded == {7}

\* Segment configs of the schedules: plain; with a LoRA; a prompt whose text
\* is the cache key of the previous one; two segments (an AREA layer and the
\* summed rest) under a loaded and a missing LoRA; no segment (weight 0)
\* under a LoRA of clip weight 0; a malformed AREA; a malformed AREA in a
\* sub-prompt of weight 0; a malformed MASK in a sub-prompt of weight 0; a
\* malformed AREA after a well-formed one.
SegmentConfigs ==
    { [prompt |-> <<a>>, loras |-> EmptyMap],
      [prompt |-> <<a>>, loras |-> [n \in {7} |-> 10]],
      [prompt |-> <<a, Word(7), StrFloat(10)>>, loras |-> EmptyMap],
      [prompt |-> <<b, AreaPct, AND, a>>, loras |-> [n \in {7, 8} |-> IF n = 7 THEN 10 ELSE 5]],
      [prompt |-> <<b, W(0)>>, loras |-> [n \in {7} |-> 0]],
      [prompt |-> <<b, AreaMixed>>, loras |-> EmptyMap],
      [prompt |-> <<a, AND, b, AreaMixed, W(0)>>, loras |-> [n \in {7} |-> 10]],
      [prompt |-> <<b, MaskMixed, W(0)>>, loras |-> EmptyMap],
      [prompt |-> <<b, AreaPct, AreaMixed>>, loras |-> EmptyMap] }

\* Interior schedule boundaries (thousandths), one of them off the grid of
\* round(x, 2).
Boundaries == {333, 500}

RECURSIVE EndPcts(_)
EndPcts(n) ==
    IF n = 1 THEN {<<1000>>}
    ELSE {<<x>> \o q : x \in Boundaries, q \in EndPcts(n - 1)}

Increasing(q) == \A i \in 1..(Len(q) - 1) : q[i] < q[i + 1]

EntryLists(configs) ==
    UNION {{[i \in 1..n |-> [end_pct |-> q[i], c |-> cs[i]]] :
                q \in {e \in EndPcts(n) : Increasing(e)},
                cs \in [1..n -> configs]}
           : n \in 1..MaxEntries}

\* The schedules with an InterpolationSpec take their entries from these.
InterpolatedConfigs ==
    {c \in SegmentConfigs : c.prompt \in {<<a>>, <<b, AreaMixed>>}}

InterpolationSpecs ==
    { [points |-> <<200, 800>>, step |-> 100],
      [points |-> <<0, 500, 1000>>, step |-> 250] }

Schedules ==
    {[entries |-> e, interpolations |-> <<>>, loaded |-> Loaded] :
        e \in EntryLists(SegmentConfigs)}
    \cup
    {[entries |-> e, interpolations |-> <<i>>, loaded |-> Loaded] :
        e \in EntryLists(InterpolatedConfigs), i \in InterpolationSpecs}

----------------------------------------------------------------------------
(* control_to_clip_common as a state machine *)

NoFrame == [k |-> 0, start_pct |-> 0, conds |-> <<>>, orig_clip |-> 0, loaded_loras |-> {}]

NoClosure == [cond_cache |-> EmptyMap, clip |-> 0, current_loras |-> EmptyMap,
              handles |-> <<>>, calls |-> <<>>, encoded |-> EmptyMap, raised |-> FALSE]

NoSchedule == [entries |-> <<>>, interpolations |-> <<>>, loaded |-> {}]

Idle ==
    /\ pc = "idle"
    /\ runs = 0
    /\ schedules = NoSchedule
    /\ frame = NoFrame
    /\ closure = NoClosure

Init ==
    /\ Idle
    /\ caller \in {[cond_cache |-> EmptyMap, encoded |-> EmptyMap, pooled |-> x] : x \in BOOLEAN}
    /\ args = <<>>
    /\ result = <<>>

\* Lines 502-508: the call starts.  The caller's clip is handle 1 and
\* orig_clip = clip.clone() is handle 2.  cond_cache is the caller's dict; a
\* call without one gets an empty dict of its own, which is the first call
\* of a caller whose dict is still empty.
Call(sch) ==
    /\ pc = "idle"
    /\ runs < MaxRuns
    /\ runs' = runs + 1
    /\ pc' = "loop"
    /\ schedules' = sch
    /\ frame' = [k |-> 1, start_pct |-> 0, conds |-> <<>>, orig_clip |-> 2,
                 loaded_loras |-> sch.loaded]
    /\ closure' = [cond_cache |-> caller.cond_cache,
                   encoded |-> caller.encoded,
                   clip |-> 1,
                   current_loras |-> EmptyMap,
                   handles |-> <<[patches |-> <<>>, pooled |-> caller.pooled],
                                 [patches |-> <<>>, pooled |-> caller.pooled]>>,
                   calls |-> <<>>,
                   raised |-> FALSE]
    /\ UNCHANGED <<caller, args, result>>

\* Lines 546-577: one pass of the loop; an exception ends the call.
Iterate ==
    /\ pc = "loop"
    /\ frame.k <= Len(schedules.entries)
    /\ \E out \in LoopBody(closure, frame.conds, frame.start_pct,
                           schedules.entries[frame.k], schedules,
                           frame.orig_clip, frame.loaded_loras) :
        /\ closure' = out.es
        /\ pc' = IF out.es.raised THEN "raised" ELSE "loop"
        /\ frame' = IF out.es.raised THEN frame
                    ELSE [frame EXCEPT !.conds = out.conds,
                                       !.start_pct = schedules.entries[frame.k].end_pct,
                                       !.k = @ + 1]
        /\ caller' = [caller EXCEPT !.cond_cache = out.es.cond_cache,
                                    !.encoded = out.es.encoded]
    /\ UNCHANGED <<runs, schedules, args, result>>

\* Lines 579-580: return conds.
Return ==
    /\ pc = "loop"
    /\ frame.k > Len(schedules.entries)
    /\ pc' = "returned"
    /\ UNCHANGED <<runs, schedules, frame, closure, caller, args, result>>

\* The caller has the returned list, or the exception; the locals of the call
\* are gone and only the caller's cond_cache stays.
Exit ==
    /\ pc \in {"returned", "raised"}
    /\ pc' = "idle"
    /\ schedules' = NoSchedule
    /\ frame' = NoFrame
    /\ closure' = NoClosure
    /\ UNCHANGED <<runs, caller, args, result>>

Next ==
    \/ \E sch \in Schedules : Call(sch)
    \/ Iterate
    \/ Return
    \/ Exit

Spec == Init /\ [][Next]_vars

----------------------------------------------------------------------------
(* The pure functions, each applied once to an input of a bounded set *)

NoCaller == [cond_cache |-> EmptyMap, encoded |-> EmptyMap, pooled |-> TRUE]

Called == result # <<>>

\* get_sdxl on a text with at most one SDXL directive of zero to three
\* arguments; <<>> is an argument that does not parse into two floats.
SdxlPairs == {<<512000, 768000>>, <<640500, 832000>>, <<0, 64000>>, <<>>}

SdxlTexts ==
    {<<a>>} \cup
    {<<a, [fn |-> "SDXL", args |-> l]>> : l \in UNION {[1..n -> SdxlPairs] : n \in 0..3}}

InitSdxl ==
    /\ Idle
    /\ caller = NoCaller
    /\ args \in {[text |-> t] : t \in SdxlTexts}
    /\ result = <<>>

CallGetSdxl ==
    /\ ~Called
    /\ result' = <<get_sdxl(args.text)>>
    /\ UNCHANGED <<pc, runs, schedules, frame, closure, caller, args>>

SpecSdxl == InitSdxl /\ [][CallGetSdxl]_vars

\* do_encode on texts of up to MaxSub sub-prompts joined by AND.
MaxSub == 2

NoScale(w) == [fn |-> ":", args |-> <<<<w>>, <<1>>>>]

SubPrompts ==
    { <<a>>, <<a, W(20)>>, <<b, W(10)>>, <<b, W(0)>>, <<b, W(-10)>>, <<b, NoScale(20)>>,
      <<b, AreaPct>>, <<b, AreaPx, W(20)>>, <<b, AreaMixed>>, <<b, AreaMixed, W(0)>>,
      <<b, MaskPct>>, <<b, MaskMixed, W(0)>>, <<b, AreaPct, AreaMixed>> }

\* Directives of the whole segment, written in front of the first sub-prompt.
Prefixes ==
    { <<>>,
      <<[fn |-> "COMFYAND", args |-> <<>>]>>,
      <<[fn |-> "SDXL", args |-> <<<<512000, 768000>>>>]>>,
      <<[fn |-> "NOISE", args |-> <<<<500>>>>]>> }

RECURSIVE JoinAnd(_)
JoinAnd(subs) ==
    IF Len(subs) = 1 THEN subs[1] ELSE subs[1] \o <<AND>> \o JoinAnd(Tail(subs))

EncodeTexts ==
    {pre \o JoinAnd(subs) :
        pre \in Prefixes, subs \in UNION {[1..n -> SubPrompts] : n \in 1..MaxSub}}

InitEncode ==
    /\ Idle
    /\ caller = NoCaller
    /\ args \in {[clip |-> [patches |-> <<>>, pooled |-> x], text |-> t] :
                    x \in BOOLEAN, t \in EncodeTexts}
    /\ result = <<>>

CallDoEncode ==
    /\ ~Called
    /\ result' = <<do_encode(args.clip, args.text)>>
    /\ UNCHANGED <<pc, runs, schedules, frame, closure, caller, args>>

SpecEncode == InitEncode /\ [][CallDoEncode]_vars

\* linear_interpolate_cond and linear_interpolator.
MaxConds == 2       \* segments of a conditioning list

Seg(n, pooled) ==
    LET clip == [patches |-> <<>>, pooled |-> pooled]
        e    == encode_prompt(clip, <<Word(n)>>, None)
    IN  [cond |-> e.cond, s |-> [NoSettings EXCEPT !.pooled_output = e.pooled]]

CondLists ==
    UNION {[1..n -> {Seg(1, TRUE), Seg(1, FALSE), Seg(2, TRUE), Seg(2, FALSE)}] : n \in 0..MaxConds}

Timings ==
    { [from_step |-> 0, to_step |-> 1000, step |-> 100, start_at |-> None, end_at |-> None],
      [from_step |-> 0, to_step |-> 1000, step |-> 300, start_at |-> None, end_at |-> None],
      [from_step |-> 0, to_step |-> 1000, step |-> 100, start_at |-> Some(200), end_at |-> Some(500)],
      [from_step |-> 200, to_step |-> 800, step |-> 100, start_at |-> Some(500), end_at |-> Some(800)],
      [from_step |-> 0, to_step |-> 1000, step |-> 250, start_at |-> Some(333), end_at |-> Some(1000)],
      [from_step |-> 0, to_step |-> 1000, step |-> 100, start_at |-> Some(0), end_at |-> Some(333)],
      [from_step |-> 0, to_step |-> 1000, step |-> 100, start_at |-> Some(520), end_at |-> Some(540)] }

\* Control points as control_to_clip_common passes them: sorted, and
\* start_pct < end_pct are two of their percentages.
PointConds == {<<>>, <<Seg(1, TRUE)>>, <<Seg(2, TRUE)>>, <<Seg(1, FALSE)>>}

\* The lists of the points of a long walk.
LongPointConds == {<<>>, <<Seg(2, TRUE)>>}

PointTimes ==
    {<<200, 800>>, <<0, 500, 1000>>, <<200, 500, 800>>, <<0, 333, 1000>>,
     <<0, 200, 400, 600, 800, 1000>>}

ControlPoints ==
    UNION {{[i \in 1..Len(ts) |-> [t |-> ts[i], cond |-> cs[i]]] :
                cs \in [1..Len(ts) -> IF Len(ts) > 3 THEN LongPointConds ELSE PointConds]}
           : ts \in PointTimes}

InitInterp ==
    /\ Idle
    /\ caller = NoCaller
    /\ result = <<>>
    /\ \/ args \in {[fn |-> "linear_interpolate_cond", start |-> x, end |-> y, t |-> t] :
                        x \in CondLists, y \in CondLists, t \in Timings}
       \/ \E cps \in ControlPoints :
            /\ args \in {[fn |-> "linear_interpolator", control_points |-> cps, step |-> st,
                       start_pct |-> cps[i].t, end_pct |-> cps[j].t] :
                        st \in {100, 250},
                        i \in 1..Len(cps), j \in 1..Len(cps)}
            /\ args.start_pct < args.end_pct

CallInterpolateCond ==
    /\ ~Called
    /\ args.fn = "linear_interpolate_cond"
    /\ result' = <<linear_interpolate_cond(args.start, args.end, args.t.from_step, args.t.to_step,
                                           args.t.step, args.t.start_at, args.t.end_at)>>
    /\ UNCHANGED <<pc, runs, schedules, frame, closure, caller, args>>

CallInterpolator ==
    /\ ~Called
    /\ args.fn = "linear_interpolator"
    /\ result' = <<linear_interpolator(args.control_points, args.step, args.start_pct,
                                       args.end_pct)>>
    /\ UNCHANGED <<pc, runs, schedules, frame, closure, caller, args>>

NextInterp == CallInterpolateCond \/ CallInterpolator

SpecInterp == InitInterp /\ [][NextInterp]_vars

----------------------------------------------------------------------------
(* Properties of control_to_clip_common, checked under Spec *)

Ranges(cs) == [i \in 1..Len(cs) |-> <<cs[i].s.start_percent, cs[i].s.end_percent>>]

\* The ranges, in list order, split [0, 1]: the first starts at 0, each next
\* one starts where the previous ended, the last ends at 1, none is empty.
Partition(rs) ==
    /\ Len(rs) >= 1
    /\ rs[1][1] = Some(0)
    /\ rs[Len(rs)][2] = Some(1000)
    /\ \A i \in 1..Len(rs) : rs[i][1] # None /\ rs[i][2] # None /\ rs[i][1][1] < rs[i][2][1]
    /\ \A i \in 1..(Len(rs) - 1) : rs[i][2] = rs[i + 1][1]

Returned == pc = "returned"

NoInterpolation == Len(schedules.interpolations) = 0

\* Number of segments the cache holds for entry k of the schedule.
SegmentsOf(k) == Len(Cached(closure, schedules.entries[k].c))

PrevEnd(k) == IF k = 1 THEN 0 ELSE schedules.entries[k - 1].end_pct

RECURSIVE EntryRanges(_)
EntryRanges(k) ==
    IF k = 0 THEN <<>>
    ELSE EntryRanges(k - 1) \o
         [i \in 1..SegmentsOf(k) |->
            <<Some(Round2(PrevEnd(k))), Some(Round2(schedules.entries[k].end_pct))>>]

\* C1 as stated: without InterpolationSpecs the ranges of the returned list
\* partition [0, 1], whatever number of segments each entry encodes to.
C1_PartitionAnySegments ==
    (Returned /\ NoInterpolation) => Partition(Ranges(frame.conds))

\* C1 amended: without InterpolationSpecs the returned list holds, entry by
\* entry in schedule order, every segment of the entry's encoding with the
\* range [round2(previous end_percent), round2(end_percent)); the ranges
\* partition [0, 1] when every entry encodes to exactly one segment.
C1_RangePerEntry ==
    (Returned /\ NoInterpolation) =>
        /\ Ranges(frame.conds) = EntryRanges(Len(schedules.entries))
        /\ (\A k \in 1..Len(schedules.entries) : SegmentsOf(k) = 1)
              => Partition(Ranges(frame.conds))

\* A returned run of two entries, one of two segments and one of one.
C1_Witness ==
    /\ Returned /\ NoInterpolation
    /\ Len(schedules.entries) = 2
    /\ SegmentsOf(1) = 2 /\ SegmentsOf(2) = 1
    /\ Len(frame.conds) = 3

\* The tallies of the shared cache: the running call's, or the caller's
\* between calls.
Encoded == IF pc = "idle" THEN caller.encoded ELSE closure.encoded

\* C2 as stated: over the runs that share one cond_cache, do_encode is
\* invoked at most once for each (prompt, LoRA set) pair.
C2_EncodedAtMostOnce ==
    \A c \in DOMAIN Encoded : Encoded[c].calls <= 1

\* C2 amended: over the runs that share one cond_cache, do_encode returns at
\* most once for each pair, and no pair whose do_encode has returned is
\* encoded again; only a pair whose do_encode raised, which stores nothing in
\* the cache, is encoded once more on its next request.
C2_CompletedAtMostOnce ==
    \A c \in DOMAIN Encoded :
        /\ Encoded[c].done <= 1
        /\ Encoded[c].calls > 1 => Encoded[c].done = 0
        /\ Encoded[c].done = 1 => c_str(c) \in DOMAIN (IF pc = "idle" THEN caller.cond_cache
                                                       ELSE closure.cond_cache)

\* A second run on the same cache returned segments, one entry of them also a
\* control point of an interpolation, without one do_encode call.
C2_Witness ==
    /\ Returned
    /\ runs = 2
    /\ Len(schedules.interpolations) = 1
    /\ Len(frame.conds) > 1
    /\ closure.calls = <<>>
    /\ \E c \in DOMAIN Encoded : Encoded[c].calls = 1 /\ Encoded[c].done = 1

\* The LoRA set applied before the i-th do_encode call of the running call.
AppliedBefore(i) == IF i = 1 THEN EmptyMap ELSE closure.calls[i - 1].c.loras

\* The handle in use before the i-th do_encode call; 1 is the caller's.
HandleBefore(i) == IF i = 1 THEN 1 ELSE closure.calls[i - 1].handle

\* The loaded LoRAs of non-zero clip weight of a config, with their weights.
Effective(c) ==
    {<<n, c.loras[n]>> : n \in {m \in DOMAIN c.loras : m \in schedules.loaded /\ c.loras[m] # 0}}

\* C4: at every do_encode call of control_to_clip_common the handle is a
\* fresh clone exactly when the segment's LoRA set differs from the applied
\* one and the handle in use before otherwise; the handle carries exactly
\* the segment's loaded LoRAs of non-zero weight, each once; the original
\* handle and the caller's handle are never patched.
C4_HandlePerLoraSet ==
    pc # "idle" =>
        /\ closure.handles[frame.orig_clip].patches = <<>>
        /\ closure.handles[1].patches = <<>>
        /\ \A i \in 1..Len(closure.calls) :
            LET call == closure.calls[i]
            IN  /\ (call.handle > call.known) <=> (call.c.loras # AppliedBefore(i))
                /\ (call.c.loras = AppliedBefore(i)) => call.handle = HandleBefore(i)
                /\ SeqRange(call.patches) = Effective(call.c)
                /\ Len(call.patches) = Cardinality(Effective(call.c))
                /\ closure.handles[call.handle].patches = call.patches
                /\ call.handle # frame.orig_clip

\* Two do_encode calls of one run under the same non-empty LoRA set: the
\* first on a fresh patched clone, the second on that same handle.
C4_Witness ==
    /\ Len(closure.calls) = 2
    /\ closure.calls[1].handle > closure.calls[1].known
    /\ closure.calls[2].handle = closure.calls[1].handle
    /\ closure.calls[2].c # closure.calls[1].c
    /\ closure.calls[2].patches # <<>>

\* The four range values of an AREA or MASK directive are neither all
\* percentages nor all pixel magnitudes.
Mixed(d) ==
    LET vs == d.args[1] \o d.args[2]
    IN  ~AllPct(vs) /\ ~AllPixel(vs)

Malformed(sub) == \E i \in 1..Len(sub) : sub[i].fn \in {"AREA", "MASK"} /\ Mixed(sub[i])

FirstOf(sub, func) == sub[CHOOSE i \in 1..Len(sub) : sub[i].fn = func /\ \A j \in 1..(i - 1) : sub[j].fn # func]

\* The weight a sub-prompt's trailing suffix gives it (tenths), 1.0 without one.
SuffixWeight(sub) == IF Len(sub) > 0 /\ sub[Len(sub)].fn = ":" THEN sub[Len(sub)].args[1][1] ELSE 10

Fatal(sub) ==
    \/ HasFn(sub, "MASK") /\ Mixed(FirstOf(sub, "MASK"))
    \/ HasFn(sub, "AREA") /\ Mixed(FirstOf(sub, "AREA")) /\ SuffixWeight(sub) # 0

SubPromptsOf(text) == SeqRange(SplitAnd(text))

\* C6 as stated: a do_encode call on a text with a malformed AREA or MASK in
\* any sub-prompt raises, the run ends with the error and without a list,
\* and the cache holds no entry for the config.
C6_MalformedAlwaysRaises ==
    \A i \in 1..Len(closure.calls) :
        LET call == closure.calls[i]
        IN  (\E sub \in SubPromptsOf(call.c.prompt) : Malformed(sub)) =>
                /\ call.raised
                /\ pc = "raised"
                /\ c_str(call.c) \notin DOMAIN closure.cond_cache

\* C6 amended: a do_encode call raises exactly when the first MASK of some
\* sub-prompt is malformed, or the first AREA of some sub-prompt whose weight
\* is not 0 is malformed; the raise ends the run with the error, no list is
\* returned and no cache entry is stored for the config.
C6_FatalRaises ==
    \A i \in 1..Len(closure.calls) :
        LET call == closure.calls[i]
        IN  /\ call.raised <=> (\E sub \in SubPromptsOf(call.c.prompt) : Fatal(sub))
            /\ call.raised =>
                /\ pc = "raised"
                /\ i = Len(closure.calls)
                /\ c_str(call.c) \notin DOMAIN closure.cond_cache
                /\ c_str(call.c) \notin DOMAIN caller.cond_cache

\* A run whose second do_encode call raised on a malformed AREA, after a
\* first call that stored its entry.
C6_Witness ==
    /\ pc = "raised"
    /\ Len(closure.calls) = 2
    /\ closure.calls[2].raised
    /\ HasFn(closure.calls[2].c.prompt, "AREA")
    /\ c_str(closure.calls[1].c) \in DOMAIN closure.cond_cache

OneInterpolation == Len(schedules.interpolations) = 1

SingleSegments ==
    \A k \in 1..Len(schedules.entries) :
        /\ c_str(schedules.entries[k].c) \in DOMAIN closure.cond_cache
        /\ SegmentsOf(k) = 1

\* Every point of [0, 1) lies in a range: 0 and the end of every range do.
Covers(rs) ==
    \A p \in {0} \cup {rs[i][2][1] : i \in 1..Len(rs)} :
        p < 1000 => \E j \in 1..Len(rs) : rs[j][1][1] <= p /\ p < rs[j][2][1]

Disjoint(rs) ==
    \A i, j \in 1..Len(rs) :
        i < j => (rs[i][2][1] <= rs[j][1][1] \/ rs[j][2][1] <= rs[i][1][1])

\* C10: with one InterpolationSpec and one segment per entry, the ranges of
\* the returned segments leave no part of [0, 1] uncovered and no two of
\* them overlap.
C10_InterpolatedPartition ==
    (Returned /\ OneInterpolation /\ SingleSegments) =>
        (Covers(Ranges(frame.conds)) /\ Disjoint(Ranges(frame.conds)))

\* The segment configs of the running call's schedule and those do_encode
\* was invoked for on the shared cond_cache.
Requested ==
    {schedules.entries[k].c : k \in 1..Len(schedules.entries)} \cup DOMAIN closure.encoded

\* The same prompt text and the same set of (lora_name, weight_clip) pairs.
SamePair(c1, c2) == c1.prompt = c2.prompt /\ c1.loras = c2.loras

\* What do_encode returns for the config itself, on a handle that carries
\* the config's LoRAs.
OwnEncoding(c) ==
    do_encode(load_clip_lora([patches |-> <<>>, pooled |-> caller.pooled], c.loras,
                             schedules.loaded),
              c.prompt)

\* C11: c_str gives two segment configs the same cache key only when they
\* have the same prompt text and the same set of (lora_name, weight_clip)
\* pairs, and the conditioning a returned call took from cond_cache for an
\* entry is the one encoded for that entry's own prompt and LoRA state.
C11_KeyInjective ==
    /\ \A c1, c2 \in Requested : c_str(c1) = c_str(c2) => SamePair(c1, c2)
    /\ (Returned /\ NoInterpolation) =>
        \A k \in 1..Len(schedules.entries) :
            Cached(closure, schedules.entries[k].c) = OwnEncoding(schedules.entries[k].c).conds

----------------------------------------------------------------------------
(* Properties of do_encode, checked under SpecEncode *)

\* A text of sub-prompts "t:w" joined by AND: words, plain weight suffixes
\* other than 0, and no directive.
PlainWeighted(text) ==
    /\ \A i \in 1..Len(text) : text[i].fn \in {"word", ":", "AND"}
    /\ \A sub \in SubPromptsOf(text) :
        /\ Len(sub) > 0
        /\ sub[1].fn = "word"
        /\ SuffixWeight(sub) # 0
        /\ sub[Len(sub)].fn = ":" => Len(sub[Len(sub)].args) = 1

\* The sub-prompt's own text, its weight suffix removed.
OwnText(sub) == IF sub[Len(sub)].fn = ":" THEN SubSeq(sub, 1, Len(sub) - 1) ELSE sub

RECURSIVE SumAbs(_)
SumAbs(subs) == IF Len(subs) = 0 THEN 0 ELSE Abs(SuffixWeight(subs[1])) + SumAbs(Tail(subs))

WeightedSum(clip, subs) ==
    TSum([i \in 1..Len(subs) |->
            TScale(Enc(clip, OwnText(subs[i]), None, "cond"),
                   Norm(<<SuffixWeight(subs[i]), SumAbs(subs)>>))])

\* C3: for sub-prompts t_i:w_i joined by AND, without directives and with
\* non-zero weights, do_encode returns one segment whose tensor is the sum
\* of (w_i / sum |w_j|) * enc(t_i), enc(t_i) being the encoding of the
\* sub-prompt's own text without its weight suffix.
C3_WeightedSum ==
    (Called /\ "text" \in DOMAIN args /\ "clip" \in DOMAIN args /\ PlainWeighted(args.text)) =>
        /\ ~result[1].raised
        /\ Len(result[1].conds) = 1
        /\ result[1].conds[1].cond = WeightedSum(args.clip, SplitAnd(args.text))

----------------------------------------------------------------------------
(* Properties of get_sdxl, checked under SpecSdxl *)

\* The i-th argument of SDXL(...) as two floats, or d when it is omitted.
SdxlArg(given, i, d) == IF i <= Len(given) /\ Len(given[i]) = 2 THEN given[i] ELSE d

\* C8: the options of SDXL(w h, tw th, cx cy) are width, height = w, h;
\* target_width, target_height = tw, th; crop_w, crop_h = cx, cy; an omitted
\* argument is 1024 1024, 1024 1024, 0 0.
C8_SdxlFields ==
    (Called /\ HasFn(args.text, "SDXL")) =>
        LET given == FirstOf(args.text, "SDXL").args
            size   == SdxlArg(given, 1, <<1024000, 1024000>>)
            target == SdxlArg(given, 2, <<1024000, 1024000>>)
            crop   == SdxlArg(given, 3, <<0, 0>>)
            opts   == result[1].opts[1]
        IN  /\ result[1].opts # None
            /\ opts.width = IntOf(size[1]) /\ opts.height = IntOf(size[2])
            /\ opts.target_width = IntOf(target[1]) /\ opts.target_height = IntOf(target[2])
            /\ opts.crop_w = IntOf(crop[1]) /\ opts.crop_h = IntOf(crop[2])

----------------------------------------------------------------------------
(* Properties of linear_interpolate_cond and linear_interpolator, checked
   under SpecInterp *)

CalledCond == Called /\ args.fn = "linear_interpolate_cond"

CalledInterpolator == Called /\ args.fn = "linear_interpolator"

StartAt == IF IsNone(args.t.start_at) THEN args.t.from_step ELSE args.t.start_at[1]

EndAt == IF IsNone(args.t.end_at) THEN args.t.to_step ELSE args.t.end_at[1]

PairedCount == Min(Len(args.start), Len(args.end))

\* round((end_at - from_step) / step) - round((start_at - from_step) / step)
StepsPerIndex ==
    RoundDiv(EndAt - args.t.from_step, args.t.step) - RoundDiv(StartAt - args.t.from_step, args.t.step)

\* The segments emitted for paired index idx, when every index emits n of them.
SegmentsOfIndex(conds, idx, n) == SubSeq(conds, (idx - 1) * n + 1, idx * n)

Chained(segs, from, to) ==
    Len(segs) > 0 =>
        /\ segs[1].s.start_percent = Some(from)
        /\ segs[Len(segs)].s.end_percent = Some(to)
        /\ \A i \in 1..(Len(segs) - 1) : segs[i].s.end_percent = segs[i + 1].s.start_percent

\* C5: with from_step <= start_at < end_at <= to_step the call emits, per
\* paired index, round((end_at - from_step) / step) - round((start_at -
\* from_step) / step) segments, each starting where the previous ended, the
\* first at start_at and the last ending at end_at; single-element lists with
\* from_step = 0, to_step = 1, step = 0.1 give 10 segments ending at 0.1,
\* 0.2, ..., 1.0.
C5_SegmentsPerIndex ==
    (CalledCond /\ args.t.from_step <= StartAt /\ StartAt < EndAt /\ EndAt <= args.t.to_step) =>
        /\ ~result[1].raised
        /\ Len(result[1].conds) = PairedCount * StepsPerIndex
        /\ \A idx \in 1..PairedCount :
            Chained(SegmentsOfIndex(result[1].conds, idx, StepsPerIndex), StartAt, EndAt)
        /\ (/\ Len(args.start) = 1 /\ Len(args.end) = 1
            /\ args.t = [from_step |-> 0, to_step |-> 1000, step |-> 100,
                         start_at |-> None, end_at |-> None])
              => /\ Len(result[1].conds) = 10
                 /\ \A i \in 1..10 : result[1].conds[i].s.end_percent = Some(100 * i)

\* The blend factor (hundredths) of the j-th segment of an index.
FactorOf(j) ==
    RoundDiv((RoundDiv(StartAt - args.t.from_step, args.t.step) + j) * 100,
             RoundDiv(args.t.to_step - args.t.from_step, args.t.step) + 1)

ExpectedPooled(idx, j) ==
    LET from_pooled == args.start[idx].s.pooled_output
        to_pooled   == args.end[idx].s.pooled_output
    IN  IF from_pooled # None /\ to_pooled # None
        THEN Some(Blend(from_pooled[1], to_pooled[1], FactorOf(j)))
        ELSE from_pooled

\* C9: linear_interpolate_cond never raises; it pairs the lists by index up
\* to the shorter length, and the pooled_output of every segment of an index
\* is the factor-blend of the two sides when both have one, the start side's
\* when only it has one, and absent when the start side of the index has none.
C9_NeverRaisesPooledPerIndex ==
    CalledCond =>
        /\ ~result[1].raised
        /\ Len(result[1].conds) = PairedCount * Max(StepsPerIndex, 0)
        /\ \A idx \in 1..PairedCount : \A j \in 1..StepsPerIndex :
            result[1].conds[(idx - 1) * StepsPerIndex + j].s.pooled_output = ExpectedPooled(idx, j)

Cps == args.control_points

\* linear_interpolate_cond on the i-th pair of control points, as
\* linear_interpolator calls it.
PairOut(i) ==
    linear_interpolate_cond(Cps[i].cond, Cps[i + 1].cond, Cps[1].t, Cps[Len(Cps)].t, args.step,
                            Some(Cps[i].t), Some(args.end_pct))

\* The pair lies entirely before start_pct.
Skipped(i) == Cps[i + 1].t <= args.start_pct

InRange(i) == ~Skipped(i) /\ Cps[i].t < args.end_pct

\* An in-range pair that ends the walk: zero segments, or a raise.
Halts(i) == InRange(i) /\ (PairOut(i).raised \/ Len(PairOut(i).conds) = 0)

Taken(i) == InRange(i) /\ \A j \in 1..i : ~Halts(j)

FirstHalt(i) == Halts(i) /\ \A j \in 1..(i - 1) : ~Halts(j)

RECURSIVE TakenOutputs(_)
TakenOutputs(i) ==
    IF i = 0 THEN <<>>
    ELSE TakenOutputs(i - 1) \o (IF Taken(i) THEN PairOut(i).conds ELSE <<>>)

\* C7: linear_interpolator returns the outputs of linear_interpolate_cond
\* for the consecutive pairs in order, leaving out exactly the pairs entirely
\* before start_pct, the pairs that start at or after end_pct, and every pair
\* from the first in-range pair of zero segments on; a raise of
\* linear_interpolate_cond on a pair reached ends the call with that raise.
C7_WalkOfPairs ==
    CalledInterpolator =>
        /\ result[1].raised <=> (\E i \in 1..(Len(Cps) - 1) : FirstHalt(i) /\ PairOut(i).raised)
        /\ ~result[1].raised => result[1].conds = TakenOutputs(Len(Cps) - 1)

\* A walk that skipped a pair, took a pair, met a pair of zero segments and
\* abandoned an in-range pair after it.
C7_Witness ==
    /\ CalledInterpolator
    /\ ~result[1].raised
    /\ \E i, j, k, m \in 1..(Len(Cps) - 1) :
        /\ Skipped(i)
        /\ Taken(j)
        /\ FirstHalt(k)
        /\ m > k /\ InRange(m) /\ Len(PairOut(m).conds) > 0
    /\ Len(result[1].conds) > 0

====
